---- MODULE Spec2Model ----
(***************************************************************************)
(* Model of sleap/nn/data.py: the dataset constructors and the joint       *)
(* augmentation, the geometry primitives (bbox centroids, centred boxes,   *)
(* box-local points, instance_crop), the confidence-map rasterizer with    *)
(* its dataset wrappers and the part-affinity-field rasterizer.            *)
(*                                                                         *)
(* float32 values are modelled as records [k, v]:                          *)
(*   k = "num": the finite value v / FP (fixed point, FP units per 1.0),   *)
(*   k = "nan": NaN,  k = "inf": +Inf (v = 1) or -Inf (v = -1),            *)
(*   k = "exp": the value e^(v / FP) for v < 0, strictly between 0 and 1.  *)
(* The inputs are drawn from sets on which every operation of the code is  *)
(* exact in this fixed point (whole pixels, edges of integer length), so   *)
(* the model computes the real-number value of each float expression.      *)
(* Tensors are sequences (1-based); node indices are the code's index + 1. *)
(***************************************************************************)
EXTENDS Integers, Sequences, FiniteSets, TLC

VARIABLES
    pc,                 \* the last function applied ("start" before any)
    raised,             \* "" or the name of the exception the call raised
    points,             \* (n_instances, n_nodes, 2 [x, y])
    edges,              \* (n_edges, 2 [src, dst]) node indices
    image_height,       \* whole pixels
    image_width,
    output_scale,       \* a float
    distance_threshold, \* a float
    sigma,              \* a float
    box_width,          \* whole pixels
    box_height,
    node_ind,           \* node_ind / ctr_node_ind
    use_ctr_node,
    centroids,          \* (n_instances, 2 [x, y])
    bboxes,             \* (n_boxes, 4 [y1, x1, y2, x2])
    box_points,         \* (n_boxes, n_instances, n_nodes, 2)
    crop,               \* instance_crop's returned tuple
    confmaps,           \* make_confmaps' result
    pafs,               \* make_pafs' result
    points_arg,         \* make_points_dataset's argument: [type, items]
    ds_points,          \* the elements of the points dataset
    ds_images,          \* the elements of the image dataset
    rotate,             \* augment_dataset's arguments
    rotation_min_angle,
    rotation_max_angle,
    aug_stack,          \* the augmenters of aug, in order
    random_state,       \* the number of draws made from aug's random state
    calls,              \* per sample: the position and locals of aug_fn
    ds_aug,             \* per sample: the element of ds_aug, once produced
    image,              \* gen_cm_fn's img: [id, height, width]
    ctr_points,         \* gen_cm_fn's ctr_pts: (n_nodes, 2)
    with_instance_cms,  \* make_instance_confmap_ds' flags
    with_all_peaks,
    with_ctr_peaks,
    ds_cms              \* the element gen_cm_fn returned

inputs == <<points, edges, image_height, image_width, output_scale,
            distance_threshold, sigma, box_width, box_height, node_ind,
            use_ctr_node>>
outputs == <<centroids, bboxes, box_points, crop, confmaps, pafs>>
points_ds_vars == <<points_arg, ds_points>>
augment_vars == <<ds_images, rotate, rotation_min_angle, rotation_max_angle,
                  aug_stack, random_state, calls, ds_aug>>
confmap_ds_vars == <<image, ctr_points, with_instance_cms, with_all_peaks,
                     with_ctr_peaks, ds_cms>>
vars == <<pc, raised, inputs, outputs, points_ds_vars, augment_vars,
          confmap_ds_vars>>

(***************************************************************************)
(* Bounds of the model.                                                    *)
(***************************************************************************)
MaxCoord == 1        \* geometry: landmark coordinates are 0..MaxCoord pixels
MaxBox == 2          \* geometry: box sizes are 1..MaxBox pixels
MaxThreshold == 1    \* PAFs: distance_threshold is 0..MaxThreshold pixels

\* Fixed-point resolution: divisible by 2, 4, every edge length 1..5 and
\* 2 * sigma^2 for sigma in 1..3.
FP == 8 * 9 * 5

(***************************************************************************)
(* float32 arithmetic with NaN and Inf.                                    *)
(***************************************************************************)
NaN == [k |-> "nan", v |-> 0]
Num(n) == [k |-> "num", v |-> n]
Inf(s) == [k |-> "inf", v |-> s]
Px(n) == Num(n * FP)

Abs(n) == IF n < 0 THEN -n ELSE n
Sign(n) == IF n < 0 THEN -1 ELSE IF n > 0 THEN 1 ELSE 0
\* Integer quotient truncated towards zero (exact on the model's inputs).
Quot(n, d) == Sign(n) * Sign(d) * (Abs(n) \div Abs(d))

is_nan(a) == a.k = "nan"
is_finite(a) == a.k = "num"

Neg(a) == IF a.k = "nan" THEN NaN ELSE [k |-> a.k, v |-> -a.v]

Add(a, b) ==
    IF a.k = "nan" \/ b.k = "nan" THEN NaN
    ELSE IF a.k = "inf" /\ b.k = "inf" THEN (IF a.v = b.v THEN a ELSE NaN)
    ELSE IF a.k = "inf" THEN a
    ELSE IF b.k = "inf" THEN b
    ELSE Num(a.v + b.v)

Sub(a, b) == Add(a, Neg(b))

Mul(a, b) ==
    IF a.k = "nan" \/ b.k = "nan" THEN NaN
    ELSE IF a.k = "inf" \/ b.k = "inf"
         THEN (IF a.v = 0 \/ b.v = 0 THEN NaN ELSE Inf(Sign(a.v) * Sign(b.v)))
    ELSE Num(Quot(a.v * b.v, FP))

Div(a, b) ==
    IF a.k = "nan" \/ b.k = "nan" THEN NaN
    ELSE IF a.k = "inf" THEN (IF b.k = "inf" THEN NaN
                              ELSE Inf(a.v * (IF b.v < 0 THEN -1 ELSE 1)))
    ELSE IF b.k = "inf" THEN Num(0)
    ELSE IF b.v = 0 THEN (IF a.v = 0 THEN NaN ELSE Inf(Sign(a.v)))
    ELSE Num(Quot(a.v * FP, b.v))

\* Comparisons: false whenever an operand is NaN.  A value e^(v / FP), v < 0,
\* lies strictly between 0 and 1; the finite values it is compared with are
\* 0 or at least 1.
Le(a, b) ==
    /\ a.k # "nan" /\ b.k # "nan"
    /\ IF a.k = "inf" THEN (a.v < 0 \/ (b.k = "inf" /\ b.v > 0))
       ELSE IF b.k = "inf" THEN b.v > 0
       ELSE IF a.k = "exp" THEN (IF b.k = "exp" THEN a.v <= b.v ELSE b.v >= FP)
       ELSE IF b.k = "exp" THEN a.v <= 0
       ELSE a.v <= b.v
Ge(a, b) == Le(b, a)

FMin(a, b) == IF Le(a, b) THEN a ELSE b
FMax(a, b) == IF Le(a, b) THEN b ELSE a

RECURSIVE ISqrtIn(_, _, _)
\* The integer square root of n, searched by bisection in lo..hi.
ISqrtIn(n, lo, hi) ==
    IF lo >= hi THEN lo
    ELSE LET mid == (lo + hi + 1) \div 2
         IN IF mid * mid <= n THEN ISqrtIn(n, mid, hi) ELSE ISqrtIn(n, lo, mid - 1)

Sqrt(a) ==
    IF a.k = "nan" THEN NaN
    ELSE IF a.k = "inf" THEN (IF a.v > 0 THEN a ELSE NaN)
    ELSE IF a.v < 0 THEN NaN
    ELSE Num(ISqrtIn(a.v * FP, 0, a.v + FP))

(***************************************************************************)
(* Sequence helpers.                                                       *)
(***************************************************************************)
RECURSIVE FoldSeq(_, _, _)
\* op folded over the sequence s from the left, starting with base.
FoldSeq(op(_, _), base, s) ==
    IF s = <<>> THEN base ELSE FoldSeq(op, op(base, Head(s)), Tail(s))

RECURSIVE Tabulate(_, _)
\* The sequence <<F(1), ..., F(n)>>, every element computed once.
Tabulate(F(_), n) == IF n = 0 THEN <<>> ELSE Append(Tabulate(F, n - 1), F(n))

MaxNat(S) == IF S = {} THEN 0 ELSE CHOOSE m \in S : \A n \in S : n <= m

\* tf.reverse over the last axis of a vector.
tf_reverse(s) == [j \in 1..Len(s) |-> s[Len(s) + 1 - j]]

Ok(value) == [raised |-> "", value |-> value]
Raise(name) == [raised |-> name, value |-> <<>>]

(***************************************************************************)
(* Geometry primitives.                                                    *)
(***************************************************************************)
\* tf.ragged.boolean_mask(points, tf.math.is_finite(points)): per node, the
\* finite coordinates that remain (a ragged innermost axis).
\* Faulty variant: missing coordinates are kept as 0 instead of being dropped.
ragged_boolean_mask_zero_fill(pts) ==
    [i \in 1..Len(pts) |->
        [n \in 1..Len(pts[i]) |->
            [d \in 1..2 |-> IF is_finite(pts[i][n][d]) THEN pts[i][n][d] ELSE Num(0)]]]

ragged_boolean_mask(pts) ==
    [i \in 1..Len(pts) |->
        [n \in 1..Len(pts[i]) |-> SelectSeq(pts[i][n], is_finite)]]

\* tf.reduce_min / tf.reduce_max of a ragged tensor over axis 1: position
\* j of row i reduces the j-th entries of the nodes that have one; the
\* row is as long as its longest node.
ragged_reduce(op(_, _), rt) ==
    [i \in 1..Len(rt) |->
        LET len == MaxNat({Len(rt[i][n]) : n \in 1..Len(rt[i])})
        IN [j \in 1..len |->
               LET col == SelectSeq(rt[i], LAMBDA r : Len(r) >= j)
               IN FoldSeq(op, col[1][j], [n \in 1..Len(col) |-> col[n][j]])]]

\* RaggedTensor.to_tensor(): rows padded with 0 to the longest row.
to_tensor(rt) ==
    LET width == MaxNat({Len(rt[i]) : i \in 1..Len(rt)})
    IN [i \in 1..Len(rt) |->
           [j \in 1..width |-> IF j <= Len(rt[i]) THEN rt[i][j] ELSE Num(0)]]

get_bbox_centroid(pts) ==
    LET masked_pts == ragged_boolean_mask(pts)
        pts_min == ragged_reduce(FMin, masked_pts)
        pts_max == ragged_reduce(FMax, masked_pts)
        ctr == [i \in 1..Len(pts) |->
                   [j \in 1..Len(pts_min[i]) |->
                       Mul(Num(FP \div 2), Add(pts_max[i][j], pts_min[i][j]))]]
    IN to_tensor(ctr)

\* tf.where(cond, x, y) on rank-2 tensors: the shapes must broadcast.
tf_where_nan(c, x) ==
    IF \E i \in 1..Len(c) : Len(x[i]) # Len(c[i]) /\ Len(x[i]) # 1
    THEN Raise("InvalidArgumentError")
    ELSE Ok([i \in 1..Len(c) |->
               [j \in 1..Len(c[i]) |->
                   IF is_nan(c[i][j])
                   THEN x[i][IF Len(x[i]) = 1 THEN 1 ELSE j]
                   ELSE c[i][j]]])

get_bbox_centroid_from_node_ind(pts, ind) ==
    LET ctr == [i \in 1..Len(pts) |-> pts[i][ind]]
        all_pts_centroids == get_bbox_centroid(pts)
    IN tf_where_nan(ctr, all_pts_centroids)

\* Faulty variant: the centroids are not reversed from (x, y) to (y, x).
get_centered_bboxes_not_reversed(ctr, bw, bh) ==
    LET bbox_delta == <<Mul(Num(-(FP \div 2)), Px(bh)), Mul(Num(-(FP \div 2)), Px(bw)),
                        Mul(Num(FP \div 2), Px(bh)), Mul(Num(FP \div 2), Px(bw))>>
        tiled == [i \in 1..Len(ctr) |-> ctr[i] \o ctr[i]]
    IN IF \E i \in 1..Len(ctr) : Len(tiled[i]) \notin {1, 4}
       THEN Raise("InvalidArgumentError")
       ELSE Ok([i \in 1..Len(ctr) |->
                  [j \in 1..4 |->
                      Add(tiled[i][IF Len(tiled[i]) = 1 THEN 1 ELSE j], bbox_delta[j])]])

get_centered_bboxes(ctr, bw, bh) ==
    LET bbox_delta == <<Mul(Num(-(FP \div 2)), Px(bh)), Mul(Num(-(FP \div 2)), Px(bw)),
                        Mul(Num(FP \div 2), Px(bh)), Mul(Num(FP \div 2), Px(bw))>>
        tiled == [i \in 1..Len(ctr) |-> tf_reverse(ctr[i]) \o tf_reverse(ctr[i])]
    IN IF \E i \in 1..Len(ctr) : Len(tiled[i]) \notin {1, 4}
       THEN Raise("InvalidArgumentError")
       ELSE Ok([i \in 1..Len(ctr) |->
                  [j \in 1..4 |->
                      Add(tiled[i][IF Len(tiled[i]) = 1 THEN 1 ELSE j], bbox_delta[j])]])

get_bbox_offsets(bxs) ==
    [b \in 1..Len(bxs) |-> tf_reverse(SubSeq(bxs[b], 1, 2))]

pts_to_bbox(pts, bxs) ==
    LET offsets == get_bbox_offsets(bxs)
    IN [b \in 1..Len(bxs) |->
           [i \in 1..Len(pts) |->
               [n \in 1..Len(pts[i]) |->
                   [d \in 1..2 |-> Sub(pts[i][n][d], offsets[b][d])]]]]

\* instance_crop: with use_ctr_node the branch that assigns instance_bboxes,
\* instance_points and instance_images is skipped, so reading
\* instance_points fails; otherwise get_centered_bboxes is called with two
\* arguments (centroids and a tuple) instead of three.
instance_crop(pts, bh, bw, use_ctr, ctr_node_ind) ==
    IF use_ctr
    THEN LET ctr == get_bbox_centroid_from_node_ind(pts, ctr_node_ind)
         IN IF ctr.raised # "" THEN Raise(ctr.raised) ELSE Raise("UnboundLocalError")
    ELSE LET ctr == get_bbox_centroid(pts)
         IN Raise("TypeError")

(***************************************************************************)
(* The variables of the dataset functions before any of them is called.    *)
(***************************************************************************)
InitPointsDsVars ==
    /\ points_arg = [type |-> "list", items |-> <<>>]
    /\ ds_points = <<>>

InitAugmentVars ==
    /\ ds_images = <<>>
    /\ rotate = FALSE
    /\ rotation_min_angle = 0
    /\ rotation_max_angle = 0
    /\ aug_stack = <<>>
    /\ random_state = 0
    /\ calls = <<>>
    /\ ds_aug = <<>>

InitConfmapDsVars ==
    /\ image = [id |-> 0, height |-> 0, width |-> 0]
    /\ ctr_points = <<>>
    /\ with_instance_cms = FALSE
    /\ with_all_peaks = FALSE
    /\ with_ctr_peaks = FALSE
    /\ ds_cms = <<>>

(***************************************************************************)
(* The geometry specification: the centroid functions applied to a point   *)
(* set, and the boxes and box-local points built from the bbox centroids.  *)
(***************************************************************************)
NoPoint == <<NaN, NaN>>
GeomCoords == 0..MaxCoord
GeomPoint == {<<Px(x), Px(y)>> : x \in GeomCoords, y \in GeomCoords} \cup {NoPoint}
GeomInstance == [1..2 -> GeomPoint]
GeomPointSets == [1..1 -> GeomInstance] \cup [1..2 -> GeomInstance]

InitGeom ==
    /\ pc = "start"
    /\ raised = ""
    /\ points \in GeomPointSets
    /\ edges = <<>>
    /\ image_height = 0
    /\ image_width = 0
    /\ output_scale = Px(1)
    /\ distance_threshold = Px(0)
    /\ sigma = Px(1)
    /\ box_width = 0
    /\ box_height = 0
    /\ node_ind = 0
    /\ use_ctr_node = FALSE
    /\ centroids = <<>>
    /\ bboxes = <<>>
    /\ box_points = <<>>
    /\ crop = <<>>
    /\ confmaps = <<>>
    /\ pafs = <<>>
    /\ InitPointsDsVars
    /\ InitAugmentVars
    /\ InitConfmapDsVars

GetBboxCentroid ==
    /\ pc = "start"
    /\ centroids' = get_bbox_centroid(points)
    /\ pc' = "get_bbox_centroid"
    /\ UNCHANGED <<points_ds_vars, augment_vars, confmap_ds_vars,
                   raised, inputs, bboxes, box_points, crop, confmaps, pafs>>

GetBboxCentroidFromNodeInd ==
    /\ pc = "start"
    /\ \E ind \in 1..Len(points[1]) :
          LET r == get_bbox_centroid_from_node_ind(points, ind)
          IN /\ node_ind' = ind
             /\ centroids' = r.value
             /\ raised' = r.raised
    /\ pc' = "get_bbox_centroid_from_node_ind"
    /\ UNCHANGED <<points_ds_vars, augment_vars, confmap_ds_vars,
                   points, edges, image_height, image_width, output_scale,
                   distance_threshold, sigma, box_width, box_height, use_ctr_node,
                   bboxes, box_points, crop, confmaps, pafs>>

GetCenteredBboxes ==
    /\ pc = "get_bbox_centroid"
    /\ \E bw \in 1..MaxBox, bh \in 1..MaxBox :
          LET r == get_centered_bboxes(centroids, bw, bh)
          IN /\ box_width' = bw
             /\ box_height' = bh
             /\ bboxes' = r.value
             /\ raised' = r.raised
    /\ pc' = "get_centered_bboxes"
    /\ UNCHANGED <<points_ds_vars, augment_vars, confmap_ds_vars,
                   points, edges, image_height, image_width, output_scale,
                   distance_threshold, sigma, node_ind, use_ctr_node,
                   centroids, box_points, crop, confmaps, pafs>>

PtsToBbox ==
    /\ pc = "get_centered_bboxes"
    /\ raised = ""
    /\ box_points' = pts_to_bbox(points, bboxes)
    /\ pc' = "pts_to_bbox"
    /\ UNCHANGED <<points_ds_vars, augment_vars, confmap_ds_vars,
                   raised, inputs, centroids, bboxes, crop, confmaps, pafs>>

InstanceCrop ==
    /\ pc = "start"
    /\ \E bw \in 1..MaxBox, bh \in 1..MaxBox, use \in BOOLEAN,
          ind \in 1..Len(points[1]) :
          LET r == instance_crop(points, bh, bw, use, ind)
          IN /\ box_width' = bw
             /\ box_height' = bh
             /\ use_ctr_node' = use
             /\ node_ind' = ind
             /\ crop' = r.value
             /\ raised' = r.raised
    /\ pc' = "instance_crop"
    /\ UNCHANGED <<points_ds_vars, augment_vars, confmap_ds_vars,
                   points, edges, image_height, image_width, output_scale,
                   distance_threshold, sigma, centroids, bboxes, box_points,
                   confmaps, pafs>>

NextGeom ==
    \/ GetBboxCentroid
    \/ GetBboxCentroidFromNodeInd
    \/ GetCenteredBboxes
    \/ PtsToBbox

SpecGeom == InitGeom /\ [][NextGeom]_vars

\* instance_crop applied to a point set.
NextCrop == InstanceCrop

SpecCrop == InitGeom /\ [][NextCrop]_vars

(***************************************************************************)
(* The sampling grid shared by the rasterizers.                            *)
(***************************************************************************)
CeilDiv(n, d) == (n + d - 1) \div d

\* Faulty variant: the number of samples is rounded down.
tf_range_floor(limit, delta) ==
    Tabulate(LAMBDA j : Num((j - 1) * delta.v), (limit * FP) \div delta.v)

\* tf.range(0, limit, delta, dtype=tf.float32) for an integer limit and a
\* float delta > 0: the values 0, delta, 2 delta, ... below limit.
tf_range(limit, delta) ==
    Tabulate(LAMBDA j : Num((j - 1) * delta.v), CeilDiv(limit * FP, delta.v))

\* tf.exp: e^0 = 1; any other finite argument the model meets is negative.
tf_exp(a) ==
    IF a.k = "nan" THEN NaN
    ELSE IF a.k = "inf" THEN (IF a.v > 0 THEN a ELSE Num(0))
    ELSE IF a.v = 0 THEN Px(1)
    ELSE [k |-> "exp", v |-> a.v]

\* Faulty variant: NaNs are left in place.
nan_to_zero_skipped(x) == x

\* tf.where(tf.math.is_nan(x), 0.0, x) on one element.
nan_to_zero(x) == IF is_nan(x) THEN Num(0) ELSE x

(***************************************************************************)
(* Confidence maps.                                                        *)
(***************************************************************************)
\* Faulty variant: a missing coordinate is read as 0 before the Gaussian.
gaussian_missing_as_origin(gx, gy, x, y, sig) ==
    LET x0 == IF is_nan(x) THEN Num(0) ELSE x
        y0 == IF is_nan(y) THEN Num(0) ELSE y
    IN tf_exp(Div(Neg(Add(Mul(Sub(gx, x0), Sub(gx, x0)), Mul(Sub(gy, y0), Sub(gy, y0)))),
                  Mul(Px(2), Mul(sig, sig))))

\* One element of the broadcast Gaussian expression.
gaussian(gx, gy, x, y, sig) ==
    tf_exp(Div(Neg(Add(Mul(Sub(gx, x), Sub(gx, x)), Mul(Sub(gy, y), Sub(gy, y)))),
               Mul(Px(2), Mul(sig, sig))))

\* (n_instances, out_height, out_width, channels)
make_confmaps(pts, height, width, scale, sig) ==
    LET yv == tf_range(height, Div(Px(1), scale))
        xv == tf_range(width, Div(Px(1), scale))
    IN Tabulate(LAMBDA i :
           Tabulate(LAMBDA r :
               Tabulate(LAMBDA c :
                   Tabulate(LAMBDA n :
                       nan_to_zero(gaussian(xv[c], yv[r],
                                            pts[i][n][1], pts[i][n][2], sig)), Len(pts[i])), Len(xv)), Len(yv)), Len(pts))

(***************************************************************************)
(* Part affinity fields.                                                   *)
(***************************************************************************)
\* tf.linalg.norm over the last axis.
tf_norm(vec) == Sqrt(Add(Mul(vec[1], vec[1]), Mul(vec[2], vec[2])))

\* tf.reduce_sum of the element-wise product over the last axis.
dot(a, b) == Add(Mul(a[1], b[1]), Mul(a[2], b[2]))

tf_abs(a) == IF a.k = "num" THEN Num(Abs(a.v))
             ELSE IF a.k = "inf" THEN Inf(1) ELSE a

perpendicular(u) == <<Neg(u[2]), u[1]>>

\* Faulty variant: the perpendicular distance is not tested.
paf_mask_any_width(parallel_distance, perpendicular_distance, edge_length, thr) ==
    LET after_edge_source == Ge(parallel_distance, Neg(thr))
        before_edge_dest == Le(parallel_distance, Add(thr, edge_length))
    IN after_edge_source /\ before_edge_dest

\* The binary mask of one pixel for one instance and edge.
paf_mask(parallel_distance, perpendicular_distance, edge_length, thr) ==
    LET after_edge_source == Ge(parallel_distance, Neg(thr))
        before_edge_dest == Le(parallel_distance, Add(thr, edge_length))
        within_edge_width == Le(perpendicular_distance, thr)
    IN after_edge_source /\ before_edge_dest /\ within_edge_width

\* tf.cast(mask, tf.float32)
cast_float(b) == IF b THEN Px(1) ELSE Px(0)

\* Faulty variant: the instances are max-reduced, as confidence maps are.
reduce_instances_max(vals) == FoldSeq(FMax, vals[1], vals)

\* tf.reduce_sum over the instance axis of one element.
reduce_instances(vals) == FoldSeq(Add, Num(0), vals)

\* The sampling grid of make_pafs: xv is reshaped to [1, -1, 1, 1] and yv
\* to [1, 1, -1, 1], so axis 1 of the grid runs over xv and axis 2 over yv.
paf_sampling_grid(xv, yv) ==
    Tabulate(LAMBDA a : Tabulate(LAMBDA b : <<xv[a], yv[b]>>, Len(yv)), Len(xv))

\* (axis 1 of the grid, axis 2 of the grid, 2 * n_edges)
make_pafs(pts, edgs, height, width, scale, thr) ==
    LET edge_points == Tabulate(LAMBDA i :
                           Tabulate(LAMBDA e :
                               <<pts[i][edgs[e][1]], pts[i][edgs[e][2]]>>, Len(edgs)), Len(pts))
        delta_points == Tabulate(LAMBDA i :
                            Tabulate(LAMBDA e :
                                <<Sub(edge_points[i][e][2][1], edge_points[i][e][1][1]),
                                  Sub(edge_points[i][e][2][2], edge_points[i][e][1][2])>>, Len(edgs)), Len(pts))
        edge_lengths == Tabulate(LAMBDA i :
                            Tabulate(LAMBDA e : tf_norm(delta_points[i][e]), Len(edgs)), Len(pts))
        unit_vectors == Tabulate(LAMBDA i :
                            Tabulate(LAMBDA e :
                                <<Div(delta_points[i][e][1], edge_lengths[i][e]),
                                  Div(delta_points[i][e][2], edge_lengths[i][e])>>, Len(edgs)), Len(pts))
        perpendicular_unit_vectors ==
            Tabulate(LAMBDA i :
                Tabulate(LAMBDA e : perpendicular(unit_vectors[i][e]), Len(edgs)), Len(pts))
        yv == tf_range(height, Div(Px(1), scale))
        xv == tf_range(width, Div(Px(1), scale))
        sampling_grid == paf_sampling_grid(xv, yv)
        instance_paf(i, a, b, e) ==
            LET source_relative_grid ==
                    <<Sub(sampling_grid[a][b][1], edge_points[i][e][1][1]),
                      Sub(sampling_grid[a][b][2], edge_points[i][e][1][2])>>
                parallel_distance == dot(unit_vectors[i][e], source_relative_grid)
                perpendicular_distance ==
                    tf_abs(dot(perpendicular_unit_vectors[i][e], source_relative_grid))
                mask == cast_float(paf_mask(parallel_distance, perpendicular_distance,
                                            edge_lengths[i][e], thr))
            IN <<nan_to_zero(Mul(mask, unit_vectors[i][e][1])),
                 nan_to_zero(Mul(mask, unit_vectors[i][e][2]))>>
    IN Tabulate(LAMBDA a :
           Tabulate(LAMBDA b :
               LET per_instance == Tabulate(LAMBDA i :
                                       Tabulate(LAMBDA e :
                                           instance_paf(i, a, b, e), Len(edgs)), Len(pts))
               IN Tabulate(LAMBDA ch :
                      LET e == (ch + 1) \div 2
                          d == ch - 2 * (e - 1)
                      IN reduce_instances(Tabulate(LAMBDA i :
                                              per_instance[i][e][d], Len(pts))), 2 * Len(edgs)), Len(sampling_grid[a])), Len(sampling_grid))

(***************************************************************************)
(* The PAF specification: make_pafs applied to a point set.                *)
(***************************************************************************)
\* Landmarks whose pairwise distances are all integers (3, 4 and 5 pixels).
PafPoint == {<<Px(1), Px(0)>>, <<Px(4), Px(0)>>, <<Px(4), Px(4)>>} \cup {NoPoint}
\* The third landmark is (4, 4) or missing.
PafInstance == {inst \in [1..3 -> PafPoint] : inst[3] \in {<<Px(4), Px(4)>>, NoPoint}}
PafPointSets == [1..1 -> PafInstance] \cup [1..2 -> PafInstance]
PafEdgeLists == {<<<<1, 2>>, <<2, 3>>>>, <<<<3, 1>>>>}
\* <<image_height, image_width>>
PafImageSizes == {<<5, 5>>, <<5, 6>>}
OutputScales == {Px(1), Num(FP \div 2)}

InitPafs ==
    /\ pc = "start"
    /\ raised = ""
    /\ points \in PafPointSets
    /\ edges = <<>>
    /\ image_height = 0
    /\ image_width = 0
    /\ output_scale = Px(1)
    /\ distance_threshold = Px(0)
    /\ sigma = Px(1)
    /\ box_width = 0
    /\ box_height = 0
    /\ node_ind = 0
    /\ use_ctr_node = FALSE
    /\ centroids = <<>>
    /\ bboxes = <<>>
    /\ box_points = <<>>
    /\ crop = <<>>
    /\ confmaps = <<>>
    /\ pafs = <<>>
    /\ InitPointsDsVars
    /\ InitAugmentVars
    /\ InitConfmapDsVars

MakePafs ==
    /\ pc = "start"
    /\ \E edgs \in PafEdgeLists, size \in PafImageSizes, scale \in OutputScales,
          thr \in 0..MaxThreshold :
          /\ edges' = edgs
          /\ image_height' = size[1]
          /\ image_width' = size[2]
          /\ output_scale' = scale
          /\ distance_threshold' = Px(thr)
          /\ pafs' = make_pafs(points, edgs, size[1], size[2], scale, Px(thr))
    /\ pc' = "make_pafs"
    /\ UNCHANGED <<points_ds_vars, augment_vars, confmap_ds_vars,
                   raised, points, sigma, box_width, box_height, node_ind,
                   use_ctr_node, centroids, bboxes, box_points, crop, confmaps>>

NextPafs == MakePafs

SpecPafs == InitPafs /\ [][NextPafs]_vars

(***************************************************************************)
(* The confidence-map specification: make_confmaps applied to a point set. *)
(***************************************************************************)
CmPointSets == GeomPointSets
\* <<image_height, image_width>>
CmImageSizes == {<<2, 2>>, <<2, 3>>}
Sigmas == {Px(1), Px(3)}

InitConfmaps ==
    /\ pc = "start"
    /\ raised = ""
    /\ points \in CmPointSets
    /\ edges = <<>>
    /\ image_height = 0
    /\ image_width = 0
    /\ output_scale = Px(1)
    /\ distance_threshold = Px(0)
    /\ sigma = Px(1)
    /\ box_width = 0
    /\ box_height = 0
    /\ node_ind = 0
    /\ use_ctr_node = FALSE
    /\ centroids = <<>>
    /\ bboxes = <<>>
    /\ box_points = <<>>
    /\ crop = <<>>
    /\ confmaps = <<>>
    /\ pafs = <<>>
    /\ InitPointsDsVars
    /\ InitAugmentVars
    /\ InitConfmapDsVars

MakeConfmaps ==
    /\ pc = "start"
    /\ \E size \in CmImageSizes, scale \in OutputScales, sig \in Sigmas :
          /\ image_height' = size[1]
          /\ image_width' = size[2]
          /\ output_scale' = scale
          /\ sigma' = sig
          /\ confmaps' = make_confmaps(points, size[1], size[2], scale, sig)
    /\ pc' = "make_confmaps"
    /\ UNCHANGED <<points_ds_vars, augment_vars, confmap_ds_vars,
                   raised, points, edges, distance_threshold, box_width, box_height,
                   node_ind, use_ctr_node, centroids, bboxes, box_points, crop, pafs>>

NextConfmaps == MakeConfmaps

SpecConfmaps == InitConfmaps /\ [][NextConfmaps]_vars

(***************************************************************************)
(* The sampling-grid specification: make_confmaps applied to a few point   *)
(* sets over every image size up to MaxDim and scales below and above 1.   *)
(***************************************************************************)
MaxDim == 5          \* grids: image_height and image_width are 1..MaxDim pixels

GridPointSets ==
    {<<<<<<Px(0), Px(0)>>>>>>,
     <<<<<<Px(1), Px(0)>>, NoPoint>>, <<<<Px(0), Px(1)>>, <<Px(1), Px(1)>>>>>>}
\* 1/2, 2/3, 1 and 2
GridScales == {Num(FP \div 2), Num(2 * (FP \div 3)), Px(1), Px(2)}

InitGrid ==
    /\ pc = "start"
    /\ raised = ""
    /\ points \in GridPointSets
    /\ edges = <<>>
    /\ image_height = 0
    /\ image_width = 0
    /\ output_scale = Px(1)
    /\ distance_threshold = Px(0)
    /\ sigma = Px(1)
    /\ box_width = 0
    /\ box_height = 0
    /\ node_ind = 0
    /\ use_ctr_node = FALSE
    /\ centroids = <<>>
    /\ bboxes = <<>>
    /\ box_points = <<>>
    /\ crop = <<>>
    /\ confmaps = <<>>
    /\ pafs = <<>>
    /\ InitPointsDsVars
    /\ InitAugmentVars
    /\ InitConfmapDsVars

MakeConfmapsOnGrid ==
    /\ pc = "start"
    /\ \E height \in 1..MaxDim, width \in 1..MaxDim, scale \in GridScales :
          /\ image_height' = height
          /\ image_width' = width
          /\ output_scale' = scale
          /\ confmaps' = make_confmaps(points, height, width, scale, sigma)
    /\ pc' = "make_confmaps"
    /\ UNCHANGED <<points_ds_vars, augment_vars, confmap_ds_vars,
                   raised, points, edges, distance_threshold, sigma, box_width,
                   box_height, node_ind, use_ctr_node, centroids, bboxes,
                   box_points, crop, pafs>>

NextGrid == MakeConfmapsOnGrid

SpecGrid == InitGrid /\ [][NextGrid]_vars

(***************************************************************************)
(* The confidence-map datasets: gen_cm_fn of make_confmap_ds and of        *)
(* make_instance_confmap_ds applied to one element of the dataset.         *)
(***************************************************************************)
\* Faulty variant: no reduction, the maps of the first instance.
tf_reduce_max_first_only(cms) == cms[1]

\* tf.reduce_max(cms, axis=0) of a (n_instances, height, width, channels)
\* tensor with at least one instance.
tf_reduce_max(cms) ==
    Tabulate(LAMBDA r :
        Tabulate(LAMBDA c :
            Tabulate(LAMBDA n :
                FoldSeq(FMax, cms[1][r][c][n],
                        Tabulate(LAMBDA i : cms[i][r][c][n], Len(cms))), Len(cms[1][r][c])), Len(cms[1][r])), Len(cms[1]))

\* gen_cm_fn of make_confmap_ds
confmap_ds_gen_cm_fn(img, pts, sig, scale) ==
    LET instance_cms == make_confmaps(pts, img.height, img.width, scale, sig)
        cms_all == tf_reduce_max(instance_cms)
    IN <<img, cms_all>>

\* gen_cm_fn of make_instance_confmap_ds
instance_confmap_ds_gen_cm_fn(img, pts, ctr_pts, sig, scale, inst_cms, all_peaks, ctr_peaks) ==
    LET instance_cms == make_confmaps(pts, img.height, img.width, scale, sig)
        outputs0 == <<>>
        outputs1 == IF (inst_cms \/ all_peaks) /\ inst_cms
                    THEN Append(outputs0, instance_cms) ELSE outputs0
        outputs2 == IF (inst_cms \/ all_peaks) /\ all_peaks
                    THEN Append(outputs1, tf_reduce_max(instance_cms)) ELSE outputs1
        outputs3 == IF ctr_peaks
                    THEN Append(outputs2,
                                tf_reduce_max(make_confmaps(<<ctr_pts>>, img.height,
                                                            img.width, scale, sig)))
                    ELSE outputs2
    IN <<img, outputs3>>

\* The images of the dataset: [id, height, width].
DsImages == {[id |-> 1, height |-> 2, width |-> 3]}
\* The point sets of the dataset: one instance, or two of which the first
\* misses its second landmark.
DsPointSets ==
    [1..1 -> GeomInstance] \cup {pts \in [1..2 -> GeomInstance] : pts[1][2] = NoPoint}

InitConfmapDs ==
    /\ pc = "start"
    /\ raised = ""
    /\ points \in DsPointSets
    /\ edges = <<>>
    /\ image_height = 0
    /\ image_width = 0
    /\ output_scale = Px(1)
    /\ distance_threshold = Px(0)
    /\ sigma = Px(1)
    /\ box_width = 0
    /\ box_height = 0
    /\ node_ind = 0
    /\ use_ctr_node = FALSE
    /\ centroids = <<>>
    /\ bboxes = <<>>
    /\ box_points = <<>>
    /\ crop = <<>>
    /\ confmaps = <<>>
    /\ pafs = <<>>
    /\ InitPointsDsVars
    /\ InitAugmentVars
    /\ image \in DsImages
    /\ ctr_points = <<>>
    /\ with_instance_cms = FALSE
    /\ with_all_peaks = FALSE
    /\ with_ctr_peaks = FALSE
    /\ ds_cms = <<>>

MakeConfmapDs ==
    /\ pc = "start"
    /\ \E sig \in Sigmas, scale \in OutputScales :
          /\ sigma' = sig
          /\ output_scale' = scale
          /\ ds_cms' = confmap_ds_gen_cm_fn(image, points, sig, scale)
    /\ pc' = "make_confmap_ds"
    /\ UNCHANGED <<points_ds_vars, augment_vars, raised, points, edges, image_height,
                   image_width, distance_threshold, box_width, box_height, node_ind,
                   use_ctr_node, outputs, image, ctr_points, with_instance_cms,
                   with_all_peaks, with_ctr_peaks>>

MakeInstanceConfmapDs ==
    /\ pc = "start"
    /\ \E ctr \in 1..Len(points), inst_cms \in BOOLEAN, all_peaks \in BOOLEAN,
          ctr_peaks \in BOOLEAN :
          /\ ctr_points' = points[ctr]
          /\ with_instance_cms' = inst_cms
          /\ with_all_peaks' = all_peaks
          /\ with_ctr_peaks' = ctr_peaks
          /\ ds_cms' = instance_confmap_ds_gen_cm_fn(image, points, points[ctr], sigma,
                                                     output_scale, inst_cms, all_peaks,
                                                     ctr_peaks)
    /\ pc' = "make_instance_confmap_ds"
    /\ UNCHANGED <<points_ds_vars, augment_vars, raised, inputs, outputs, image>>

NextConfmapDs ==
    \/ MakeConfmapDs
    \/ MakeInstanceConfmapDs

SpecConfmapDs == InitConfmapDs /\ [][NextConfmapDs]_vars

(***************************************************************************)
(* The variables of the geometry and rasterizer functions before any of    *)
(* them is called (all but points).                                        *)
(***************************************************************************)
InitCallVars ==
    /\ pc = "start"
    /\ raised = ""
    /\ edges = <<>>
    /\ image_height = 0
    /\ image_width = 0
    /\ output_scale = Px(1)
    /\ distance_threshold = Px(0)
    /\ sigma = Px(1)
    /\ box_width = 0
    /\ box_height = 0
    /\ node_ind = 0
    /\ use_ctr_node = FALSE
    /\ centroids = <<>>
    /\ bboxes = <<>>
    /\ box_points = <<>>
    /\ crop = <<>>
    /\ confmaps = <<>>
    /\ pafs = <<>>

(***************************************************************************)
(* make_points_dataset.  An array (np.ndarray or tf.Tensor) is a record    *)
(* [shape, data]; the argument is [type, items] with the Python type of    *)
(* the container and, for a list or tuple, the sequence of its arrays, for *)
(* an array, the array itself.  A dataset is the sequence of its elements. *)
(***************************************************************************)
MaxSamples == 2      \* datasets: lists and arrays hold up to MaxSamples samples

ndim(a) == Len(a.shape)

\* tf.expand_dims(p, 0)
tf_expand_dims(p) == [shape |-> <<1>> \o p.shape, data |-> <<p.data>>]

make_points_dataset(pts) ==
    IF pts.type = "list"
    THEN IF Len(pts.items) = 0 THEN Raise("IndexError")
         ELSE IF ndim(pts.items[1]) = 2
              THEN Ok([j \in 1..Len(pts.items) |-> tf_expand_dims(pts.items[j])])
         ELSE IF ndim(pts.items[1]) = 3 THEN Ok(pts.items)
         ELSE Raise("ValueError")
    ELSE IF pts.type \in {"ndarray", "Tensor"}
         THEN Raise("AttributeError")
    ELSE Raise("ValueError")

\* Arrays of rank 1 to 4 over one landmark that is present or missing.
ArrayPoints == {<<Px(0), Px(1)>>, NoPoint}
Rank1Arrays == {[shape |-> <<2>>, data |-> pt] : pt \in ArrayPoints}
Rank2Arrays == {[shape |-> <<1, 2>>, data |-> <<pt>>] : pt \in ArrayPoints}
Rank3Arrays == {[shape |-> <<1, 1, 2>>, data |-> <<<<pt>>>>] : pt \in ArrayPoints}
Rank4ArraysOf(n) ==
    {[shape |-> <<n, 1, 1, 2>>, data |-> [j \in 1..n |-> <<<<f[j]>>>>]] :
        f \in [1..n -> ArrayPoints]}
Rank4Arrays == UNION {Rank4ArraysOf(n) : n \in 1..MaxSamples}
ListElements == Rank1Arrays \cup Rank2Arrays \cup Rank3Arrays \cup Rank4ArraysOf(1)
ArrayLists == UNION {[1..n -> ListElements] : n \in 0..MaxSamples}
PointsArgs ==
    {[type |-> t, items |-> l] : t \in {"list", "tuple"}, l \in ArrayLists}
    \cup {[type |-> t, items |-> a] :
             t \in {"ndarray", "Tensor"},
             a \in Rank1Arrays \cup Rank2Arrays \cup Rank3Arrays \cup Rank4Arrays}

InitPoints ==
    /\ InitCallVars
    /\ points = <<>>
    /\ points_arg \in PointsArgs
    /\ ds_points = <<>>
    /\ InitAugmentVars
    /\ InitConfmapDsVars

MakePointsDataset ==
    /\ pc = "start"
    /\ LET r == make_points_dataset(points_arg)
       IN /\ ds_points' = r.value
          /\ raised' = r.raised
    /\ pc' = "make_points_dataset"
    /\ UNCHANGED <<inputs, outputs, points_arg, augment_vars, confmap_ds_vars>>

NextPoints == MakePointsDataset

SpecPoints == InitPoints /\ [][NextPoints]_vars

(***************************************************************************)
(* augment_dataset.  Angles are whole degrees.  An image or a point set of *)
(* a dataset is named by its position in the dataset; an augmented one     *)
(* records what it was made from, the seed of the deterministic augmenter  *)
(* that made it and the rotation that was applied.                         *)
(***************************************************************************)
\* The angles the arguments and the draws are taken from.
RotationAngles == {-180, -90, 0, 90, 180}

\* iap.Uniform(a, b), which iaa.Affine builds from the tuple (a, b): the
\* values it can return; the ends are swapped when a > b.
Uniform(a, b) ==
    {angle \in RotationAngles : IF a > b THEN b <= angle /\ angle <= a
                                ELSE a <= angle /\ angle <= b}

\* iaa.Affine(rotate=(low, high))
Affine(low, high) == [rotate |-> <<low, high>>]

\* The augmenter stack set up from the rotation arguments.
rotation_stack(rot, min_angle, max_angle) ==
    IF rot THEN <<Affine(-min_angle, max_angle)>> ELSE <<>>

\* The angles a deterministic copy of the stack can hold.
stack_angles(stack) ==
    IF stack = <<>> THEN {0} ELSE Uniform(stack[1].rotate[1], stack[1].rotate[2])

\* tf.data.Dataset.zip((a, b)): pairs by position, as long as the shorter.
dataset_zip(a, b) ==
    [i \in 1..(IF Len(a) <= Len(b) THEN Len(a) ELSE Len(b)) |-> <<a[i], b[i]>>]

\* aug_det.augment_image(img)
augment_image(aug_det, img) ==
    [src |-> img, seed |-> aug_det.seed, rotated |-> aug_det.angle]

\* Faulty variant: the keypoints go through aug, which draws anew.
augment_keypoints_own_draw(aug_det, kps) ==
    [src |-> kps, seed |-> aug_det.seed + 1, rotated |-> aug_det.angle]

\* aug_det.augment_keypoints(kps)
augment_keypoints(aug_det, kps) ==
    [src |-> kps, seed |-> aug_det.seed, rotated |-> aug_det.angle]

NoAugDet == [seed |-> 0, angle |-> 0]

InitAugment ==
    /\ InitCallVars
    /\ points = <<>>
    /\ points_arg = [type |-> "list", items |-> <<>>]
    /\ \E n \in 1..MaxSamples : ds_images = [i \in 1..n |-> [image |-> i]]
    /\ \E n \in 1..MaxSamples : ds_points = [i \in 1..n |-> [points |-> i]]
    /\ rotate = FALSE
    /\ rotation_min_angle = 0
    /\ rotation_max_angle = 0
    /\ aug_stack = <<>>
    /\ random_state = 0
    /\ calls = <<>>
    /\ ds_aug = <<>>
    /\ InitConfmapDsVars

\* augment_dataset up to the return of the mapped dataset: the augmenter
\* is set up, the streams are zipped and one aug_fn call per pair is queued.
AugmentDataset ==
    /\ pc = "start"
    /\ \E rot \in BOOLEAN, min_angle \in RotationAngles, max_angle \in RotationAngles :
          /\ min_angle <= max_angle
          /\ rotate' = rot
          /\ rotation_min_angle' = min_angle
          /\ rotation_max_angle' = max_angle
          /\ aug_stack' = rotation_stack(rot, min_angle, max_angle)
    /\ LET ds_img_and_pts == dataset_zip(ds_images, ds_points)
       IN /\ calls' = [i \in 1..Len(ds_img_and_pts) |->
                          [pc |-> "aug_fn", aug_det |-> NoAugDet,
                           img |-> ds_img_and_pts[i][1],
                           pt |-> ds_img_and_pts[i][2]]]
          /\ ds_aug' = [i \in 1..Len(ds_img_and_pts) |-> <<>>]
    /\ pc' = "augment_dataset"
    /\ UNCHANGED <<raised, inputs, outputs, points_arg, ds_points, ds_images,
                   random_state, confmap_ds_vars>>

\* aug_det = aug.to_deterministic(): a copy seeded from aug's random state,
\* whose parameters are fixed by that seed.
ToDeterministic(i) ==
    /\ calls[i].pc = "aug_fn"
    /\ \E angle \in stack_angles(aug_stack) :
          calls' = [calls EXCEPT ![i].pc = "to_deterministic",
                                 ![i].aug_det = [seed |-> random_state + 1,
                                                 angle |-> angle]]
    /\ random_state' = random_state + 1
    /\ UNCHANGED <<pc, raised, inputs, outputs, points_ds_vars, ds_images, rotate,
                   rotation_min_angle, rotation_max_angle, aug_stack, ds_aug,
                   confmap_ds_vars>>

AugmentImage(i) ==
    /\ calls[i].pc = "to_deterministic"
    /\ calls' = [calls EXCEPT ![i].pc = "augment_image",
                              ![i].img = augment_image(calls[i].aug_det, calls[i].img)]
    /\ UNCHANGED <<pc, raised, inputs, outputs, points_ds_vars, ds_images, rotate,
                   rotation_min_angle, rotation_max_angle, aug_stack, random_state,
                   ds_aug, confmap_ds_vars>>

AugmentKeypoints(i) ==
    /\ calls[i].pc = "augment_image"
    /\ calls' = [calls EXCEPT ![i].pc = "augment_keypoints",
                              ![i].pt = augment_keypoints(calls[i].aug_det, calls[i].pt)]
    /\ UNCHANGED <<pc, raised, inputs, outputs, points_ds_vars, ds_images, rotate,
                   rotation_min_angle, rotation_max_angle, aug_stack, random_state,
                   ds_aug, confmap_ds_vars>>

\* return img, pt: the map puts the result at the position of its input.
ReturnAugmented(i) ==
    /\ calls[i].pc = "augment_keypoints"
    /\ calls' = [calls EXCEPT ![i].pc = "returned"]
    /\ ds_aug' = [ds_aug EXCEPT ![i] = <<calls[i].img, calls[i].pt>>]
    /\ UNCHANGED <<pc, raised, inputs, outputs, points_ds_vars, ds_images, rotate,
                   rotation_min_angle, rotation_max_angle, aug_stack, random_state,
                   confmap_ds_vars>>

\* The calls of the parallel map take their steps in any order.
NextAugment ==
    \/ AugmentDataset
    \/ \E i \in 1..Len(calls) : ToDeterministic(i)
    \/ \E i \in 1..Len(calls) : AugmentImage(i)
    \/ \E i \in 1..Len(calls) : AugmentKeypoints(i)
    \/ \E i \in 1..Len(calls) : ReturnAugmented(i)

SpecAugment == InitAugment /\ [][NextAugment]_vars

(***************************************************************************)
(* Properties.  Expected values are computed directly in integers (units   *)
(* of 1 / FP), independently of the float operators above.                 *)
(***************************************************************************)
Present(pt) == pt[1].k = "num" /\ pt[2].k = "num"
MinOf(S) == CHOOSE m \in S : \A n \in S : m <= n
MaxOf(S) == CHOOSE m \in S : \A n \in S : n <= m
SumInts(s) == FoldSeq(LAMBDA x, y : x + y, 0, s)
Visible(inst) == {n \in 1..Len(inst) : Present(inst[n])}
NoNaNs(pts) == \A i \in 1..Len(pts) : Visible(pts[i]) = 1..Len(pts[i])

\* (min + max) / 2 of coordinate d over the visible landmarks of inst.
MidOf(inst, d) ==
    LET vals == {inst[n][d].v : n \in Visible(inst)}
    IN (MinOf(vals) + MaxOf(vals)) \div 2

---------------------------------------------------------------------------
\* C6: get_bbox_centroid returns, for every instance with at least one
\* visible landmark, ((min_x + max_x) / 2, (min_y + max_y) / 2) over that
\* instance's visible landmarks only: NaN landmarks are ignored, and the
\* other instances play no part.
C6_CentroidOfVisibleLandmarks ==
    pc = "get_bbox_centroid" =>
        \A i \in 1..Len(points) :
            Visible(points[i]) # {} =>
                centroids[i] = <<Num(MidOf(points[i], 1)), Num(MidOf(points[i], 2))>>

\* C6 witness: an instance with a missing and a visible landmark, next to
\* another instance, got the visible landmark as its centroid.
C6_Witness ==
    /\ pc = "get_bbox_centroid"
    /\ Len(points) = 2
    /\ points[1] = <<NoPoint, <<Px(1), Px(0)>>>>
    /\ points[2] = <<<<Px(0), Px(0)>>, <<Px(1), Px(1)>>>>
    /\ centroids[1] = <<Px(1), Px(0)>>
    /\ centroids[2] = <<Num(FP \div 2), Num(FP \div 2)>>

\* C7: get_bbox_centroid returns NaN in both components for an instance
\* whose landmarks are all NaN, and does not fail.
C7_AllMissingGivesNaN ==
    pc = "get_bbox_centroid" =>
        /\ raised = ""
        /\ \A i \in 1..Len(points) :
               Visible(points[i]) = {} => centroids[i] = <<NaN, NaN>>

\* C8: get_bbox_centroid_from_node_ind returns, for every instance, the
\* landmark node_ind when it is visible and the bbox centroid otherwise.
C8_NodeOrBboxCentroid ==
    pc = "get_bbox_centroid_from_node_ind" =>
        /\ raised = ""
        /\ Len(centroids) = Len(points)
        /\ \A i \in 1..Len(points) :
               centroids[i] = IF Present(points[i][node_ind])
                              THEN points[i][node_ind]
                              ELSE get_bbox_centroid(points)[i]

\* C9: for a point set without NaNs, the boxes centred on the bbox
\* centroids are (cy - h/2, cx - w/2, cy + h/2, cx + w/2), box_points[b, i, k]
\* is points[i, k] - (x1_b, y1_b), and the bbox centroid of each instance's
\* own view box_points[i, i] is (w/2, h/2).
C9_RoundTrip ==
    (pc = "pts_to_bbox" /\ node_ind = 0 /\ NoNaNs(points)) =>
        LET cx(b) == MidOf(points[b], 1)
            cy(b) == MidOf(points[b], 2)
            w2 == (box_width * FP) \div 2
            h2 == (box_height * FP) \div 2
        IN /\ Len(bboxes) = Len(points)
           /\ \A b \in 1..Len(points) :
                  bboxes[b] = <<Num(cy(b) - h2), Num(cx(b) - w2),
                                Num(cy(b) + h2), Num(cx(b) + w2)>>
           /\ Len(box_points) = Len(points)
           /\ \A b \in 1..Len(points) : \A i \in 1..Len(points) :
                  \A n \in 1..Len(points[i]) :
                      box_points[b][i][n] =
                          <<Num(points[i][n][1].v - (cx(b) - w2)),
                            Num(points[i][n][2].v - (cy(b) - h2))>>
           /\ \A i \in 1..Len(points) :
                  get_bbox_centroid(<<box_points[i][i]>>)[1] = <<Num(w2), Num(h2)>>

\* C9 witness: two instances with different centroids and a box that is not
\* square went through the round trip.
C9_Witness ==
    /\ pc = "pts_to_bbox"
    /\ node_ind = 0
    /\ points = <<<<<<Px(0), Px(0)>>, <<Px(1), Px(0)>>>>,
                  <<<<Px(1), Px(1)>>, <<Px(1), Px(0)>>>>>>
    /\ box_width = 2
    /\ box_height = 1
    /\ box_points[1][2][1] = <<Num(3 * (FP \div 2)), Num(3 * (FP \div 2))>>

\* C10: instance_crop returns (instance_images, instance_points,
\* instance_ctr_points) with one crop per instance, instance_points[b, i]
\* instance i's landmarks relative to the box centred on instance b's
\* centroid, and instance_ctr_points[i] = instance_points[i, i], for
\* use_ctr_node False and True.
C10_InstanceCropReturns ==
    pc = "instance_crop" =>
        /\ raised = ""
        /\ Len(crop) = 3
        /\ LET ctr == IF use_ctr_node
                      THEN get_bbox_centroid_from_node_ind(points, node_ind).value
                      ELSE get_bbox_centroid(points)
               boxes == get_centered_bboxes(ctr, box_width, box_height).value
               instance_points == pts_to_bbox(points, boxes)
           IN /\ Len(crop[1]) = Len(points)
              /\ crop[2] = instance_points
              /\ crop[3] = [i \in 1..Len(points) |-> instance_points[i][i]]

---------------------------------------------------------------------------
\* The number of grid samples along a dimension of `size` pixels, and the
\* coordinate of sample j, for the output scale of the call.
GridLen(size) == CeilDiv(size * FP * output_scale.v, FP * FP)
GridAt(j) == ((j - 1) * FP * FP) \div output_scale.v

\* The integer length of an edge of integer length.
EdgeLen(dx, dy) == CHOOSE l \in 0..(Abs(dx) + Abs(dy)) : l * l = dx * dx + dy * dy

\* The pixel (gx, gy) is on for the edge src -> dst: its parallel distance
\* is in [-thr, length + thr] and its perpendicular distance at most thr.
PixelOn(src, dst, gx, gy, thr) ==
    LET dx == (dst[1].v - src[1].v) \div FP
        dy == (dst[2].v - src[2].v) \div FP
        len == EdgeLen(dx, dy)
        par == dx * (gx - src[1].v) + dy * (gy - src[2].v)
        perp == dx * (gy - src[2].v) - dy * (gx - src[1].v)
    IN /\ par >= -(thr * len)
       /\ par <= (len * FP + thr) * len
       /\ Abs(perp) <= thr * len

\* Component d of the unit vector from src to dst.
UnitOf(src, dst, d) ==
    LET dx == (dst[1].v - src[1].v) \div FP
        dy == (dst[2].v - src[2].v) \div FP
    IN ((dst[d].v - src[d].v)) \div EdgeLen(dx, dy)

\* Component d of what instance inst contributes to the edge at (gx, gy):
\* the unit vector where the pixel is on, zero elsewhere, and zero for an
\* edge with a missing endpoint or of length zero.
Contribution(inst, edge, gx, gy, thr, d) ==
    LET src == inst[edge[1]]
        dst == inst[edge[2]]
    IN IF ~Present(src) \/ ~Present(dst) \/ src = dst THEN 0
       ELSE IF PixelOn(src, dst, gx, gy, thr) THEN UnitOf(src, dst, d)
       ELSE 0

\* The output holds one entry per grid point: axis 1 of pafs runs over the
\* x samples and axis 2 over the y samples.
PafGridShape ==
    /\ Len(pafs) = GridLen(image_width)
    /\ \A a \in 1..Len(pafs) :
           /\ Len(pafs[a]) = GridLen(image_height)
           /\ \A b \in 1..Len(pafs[a]) : Len(pafs[a][b]) = 2 * Len(edges)

\* The value make_pafs holds for component d of edge e at the grid point
\* with x = GridAt(a), y = GridAt(b).
PafAt(a, b, e, d) == pafs[a][b][2 * (e - 1) + d]

\* C1: for a single instance and an edge whose endpoints are present and
\* distinct, the edge's vector at every grid point is the unit vector u
\* exactly when par >= -thr, par <= length + thr and perp <= thr, and
\* (0, 0) otherwise.
C1_SingleInstanceBand ==
    (pc = "make_pafs" /\ Len(points) = 1) =>
        /\ PafGridShape
        /\ \A e \in 1..Len(edges) :
               LET src == points[1][edges[e][1]]
                   dst == points[1][edges[e][2]]
               IN (Present(src) /\ Present(dst) /\ src # dst) =>
                      \A a \in 1..Len(pafs) : \A b \in 1..Len(pafs[a]) :
                          \A d \in 1..2 :
                              PafAt(a, b, e, d) =
                                  IF PixelOn(src, dst, GridAt(a), GridAt(b),
                                             distance_threshold.v)
                                  THEN Num(UnitOf(src, dst, d))
                                  ELSE Num(0)

\* C1 witness: the horizontal edge (1,0) -> (4,0) with threshold 1 gives
\* (1, 0) at x = 2, y = 0 and (0, 0) at x = 2, y = 2.
C1_Witness ==
    /\ pc = "make_pafs"
    /\ points = <<<<<<Px(1), Px(0)>>, <<Px(4), Px(0)>>, <<Px(4), Px(4)>>>>>>
    /\ edges = <<<<1, 2>>, <<2, 3>>>>
    /\ output_scale = Px(1)
    /\ distance_threshold = Px(1)
    /\ <<PafAt(3, 1, 1, 1), PafAt(3, 1, 1, 2)>> = <<Px(1), Px(0)>>
    /\ <<PafAt(3, 3, 1, 1), PafAt(3, 3, 1, 2)>> = <<Px(0), Px(0)>>

\* C2: the result has shape (out_height, out_width, 2 * n_edges), and the
\* entry at [r, c, 2 * e + d] is component d of edge e at the grid point
\* with y = r / output_scale and x = c / output_scale.
C2_RowsAreY ==
    pc = "make_pafs" =>
        /\ Len(pafs) = GridLen(image_height)
        /\ \A r \in 1..Len(pafs) :
               /\ Len(pafs[r]) = GridLen(image_width)
               /\ \A c \in 1..Len(pafs[r]) :
                      /\ Len(pafs[r][c]) = 2 * Len(edges)
                      /\ \A e \in 1..Len(edges) : \A d \in 1..2 :
                             pafs[r][c][2 * (e - 1) + d] =
                                 Num(SumInts([i \in 1..Len(points) |->
                                         Contribution(points[i], edges[e], GridAt(c),
                                                      GridAt(r), distance_threshold.v,
                                                      d)]))

\* C3: at every pixel and for every edge the output is the component-wise
\* sum over the instances of each instance's contribution.
C3_SumOverInstances ==
    pc = "make_pafs" =>
        /\ PafGridShape
        /\ \A a \in 1..Len(pafs) : \A b \in 1..Len(pafs[a]) :
               \A e \in 1..Len(edges) : \A d \in 1..2 :
                   PafAt(a, b, e, d) =
                       Num(SumInts([i \in 1..Len(points) |->
                               Contribution(points[i], edges[e], GridAt(a), GridAt(b),
                                            distance_threshold.v, d)]))

\* C3 witness: two instances with the same edge (1,0) -> (4,0) are both on
\* at x = 2, y = 0, where the output is (2, 0).
C3_Witness ==
    /\ pc = "make_pafs"
    /\ Len(points) = 2
    /\ points[1] = points[2]
    /\ points[1] = <<<<Px(1), Px(0)>>, <<Px(4), Px(0)>>, <<Px(4), Px(4)>>>>
    /\ edges = <<<<1, 2>>, <<2, 3>>>>
    /\ output_scale = Px(1)
    /\ <<PafAt(3, 1, 1, 1), PafAt(3, 1, 1, 2)>> = <<Px(2), Px(0)>>

\* The instances that have both endpoints of the edge.
WithEdge(edge) ==
    {i \in 1..Len(points) : Present(points[i][edge[1]]) /\ Present(points[i][edge[2]])}

\* C4: when some instance misses an endpoint of some edge, the output holds
\* no NaN, and every edge's vector at every pixel is what the instances
\* that have both of its endpoints contribute: an instance contributes
\* nothing to an edge it misses an endpoint of.
C4_MissingEndpointContributesZero ==
    (pc = "make_pafs" /\ \E e \in 1..Len(edges) : WithEdge(edges[e]) # 1..Len(points)) =>
        /\ PafGridShape
        /\ \A a \in 1..Len(pafs) : \A b \in 1..Len(pafs[a]) :
               \A e \in 1..Len(edges) : \A d \in 1..2 :
                   /\ ~is_nan(PafAt(a, b, e, d))
                   /\ PafAt(a, b, e, d) =
                          Num(SumInts([i \in 1..Len(points) |->
                                  IF i \in WithEdge(edges[e])
                                  THEN Contribution(points[i], edges[e], GridAt(a),
                                                    GridAt(b), distance_threshold.v, d)
                                  ELSE 0]))

\* C4 witness: instance 1 misses the destination of edge 2 -> 3 only;
\* instance 2 has every landmark.  At x = 4, y = 2 edge 2 -> 3 holds
\* instance 2's vector (0, 1) alone, and at x = 2, y = 0 edge 1 -> 2 holds
\* the vectors of both instances.
C4_Witness ==
    /\ pc = "make_pafs"
    /\ Len(points) = 2
    /\ points[1] = <<<<Px(1), Px(0)>>, <<Px(4), Px(0)>>, NoPoint>>
    /\ points[2] = <<<<Px(1), Px(0)>>, <<Px(4), Px(0)>>, <<Px(4), Px(4)>>>>
    /\ edges = <<<<1, 2>>, <<2, 3>>>>
    /\ output_scale = Px(1)
    /\ <<PafAt(5, 3, 2, 1), PafAt(5, 3, 2, 2)>> = <<Px(0), Px(1)>>
    /\ <<PafAt(3, 1, 1, 1), PafAt(3, 1, 1, 2)>> = <<Px(2), Px(0)>>

---------------------------------------------------------------------------
\* The value of the Gaussian of the landmark pt at the grid point (gx, gy).
GaussianAt(pt, gx, gy) ==
    LET d2 == (gx - pt[1].v) * (gx - pt[1].v) + (gy - pt[2].v) * (gy - pt[2].v)
    IN IF d2 = 0 THEN Px(1)
       ELSE [k |-> "exp", v |-> -((d2 * FP) \div (2 * sigma.v * sigma.v))]

\* C5: when some landmark is NaN, its slice [i, :, :, k] is zero at every
\* grid point, no output value is NaN, and every other slice is the
\* Gaussian of its own landmark (1.0 at the landmark).
C5_MissingLandmarkZeroChannel ==
    (pc = "make_confmaps" /\ ~NoNaNs(points)) =>
        /\ Len(confmaps) = Len(points)
        /\ \A i \in 1..Len(points) :
               /\ Len(confmaps[i]) = GridLen(image_height)
               /\ \A r \in 1..Len(confmaps[i]) :
                      /\ Len(confmaps[i][r]) = GridLen(image_width)
                      /\ \A c \in 1..Len(confmaps[i][r]) :
                             /\ Len(confmaps[i][r][c]) = Len(points[i])
                             /\ \A n \in 1..Len(points[i]) :
                                    /\ ~is_nan(confmaps[i][r][c][n])
                                    /\ confmaps[i][r][c][n] =
                                           IF Present(points[i][n])
                                           THEN GaussianAt(points[i][n], GridAt(c),
                                                           GridAt(r))
                                           ELSE Num(0)

\* C5 witness: one instance, landmark 1 at (1, 1), landmark 2 missing,
\* sigma 1: channel 1 is 1.0 at row 1, column 1 and channel 2 is zero there.
C5_Witness ==
    /\ pc = "make_confmaps"
    /\ points = <<<<<<Px(1), Px(1)>>, NoPoint>>>>
    /\ sigma = Px(1)
    /\ output_scale = Px(1)
    /\ confmaps[1][2][2] = <<Px(1), Px(0)>>
    /\ confmaps[1][1][2][1] = [k |-> "exp", v |-> -(FP \div 2)]

---------------------------------------------------------------------------
IsList == points_arg.type = "list"
IsArray == points_arg.type \in {"ndarray", "Tensor"}
AllOfRank(r) ==
    /\ Len(points_arg.items) > 0
    /\ \A j \in 1..Len(points_arg.items) : Len(points_arg.items[j].shape) = r

\* C11: make_points_dataset turns an array of shape (n_samples, n_instances,
\* n_nodes, 2) into its n_samples slices, leaves a list of rank-3 arrays
\* unchanged, gives each array of a list of rank-2 arrays a leading axis
\* of length 1, and fails with ValueError, producing no element, for any
\* other container type or list-element rank; it fails in no other way.
\* (Nothing is asked of the empty list, which has no element rank.)
C11_InputHandling ==
    (pc = "make_points_dataset" /\ ~(IsList /\ Len(points_arg.items) = 0)) =>
        /\ raised \in {"", "ValueError"}
        /\ raised = "ValueError" => ds_points = <<>>
        /\ (IsArray /\ Len(points_arg.items.shape) = 4) =>
               /\ raised = ""
               /\ ds_points =
                      [j \in 1..points_arg.items.shape[1] |->
                          [shape |-> Tail(points_arg.items.shape),
                           data |-> points_arg.items.data[j]]]
        /\ (IsList /\ AllOfRank(3)) =>
               /\ raised = ""
               /\ ds_points = points_arg.items
        /\ (IsList /\ AllOfRank(2)) =>
               /\ raised = ""
               /\ ds_points =
                      [j \in 1..Len(points_arg.items) |->
                          [shape |-> <<1>> \o points_arg.items[j].shape,
                           data |-> <<points_arg.items[j].data>>]]
        /\ (~IsList /\ ~IsArray) => raised = "ValueError"
        /\ (IsList /\ \E r \in {1, 4} : AllOfRank(r)) => raised = "ValueError"

---------------------------------------------------------------------------
\* C12: with rotate enabled the augmenter draws the rotation angle from
\* [rotation_min_angle, rotation_max_angle] and from no other interval:
\* the angles it can draw are exactly those of that interval, and every
\* angle a sample was rotated by lies in it.
C12_RotationRange ==
    (pc = "augment_dataset" /\ rotate) =>
        /\ stack_angles(aug_stack) =
               {angle \in RotationAngles :
                   rotation_min_angle <= angle /\ angle <= rotation_max_angle}
        /\ \A i \in 1..Len(calls) :
               calls[i].pc # "aug_fn" =>
                   /\ rotation_min_angle <= calls[i].aug_det.angle
                   /\ calls[i].aug_det.angle <= rotation_max_angle

\* The calls that have returned.
Returned == {i \in 1..Len(calls) : calls[i].pc = "returned"}

---------------------------------------------------------------------------
\* Instance i has both endpoints of the edge, at the same place.
ZeroLength(i, edge) ==
    /\ Present(points[i][edge[1]])
    /\ Present(points[i][edge[2]])
    /\ points[i][edge[1]] = points[i][edge[2]]

\* C14: when some instance has an edge of length zero, every output value
\* is finite (no NaN, no Inf), that instance adds (0, 0) to that edge at
\* every pixel, and every edge's vector is the sum of what the other
\* instances contribute to it.
C14_ZeroLengthEdgeContributesZero ==
    (pc = "make_pafs" /\ \E i \in 1..Len(points) : \E e \in 1..Len(edges) :
                             ZeroLength(i, edges[e])) =>
        /\ PafGridShape
        /\ \A a \in 1..Len(pafs) : \A b \in 1..Len(pafs[a]) :
               \A e \in 1..Len(edges) : \A d \in 1..2 :
                   /\ is_finite(PafAt(a, b, e, d))
                   /\ PafAt(a, b, e, d) =
                          Num(SumInts([i \in 1..Len(points) |->
                                  IF ZeroLength(i, edges[e]) THEN 0
                                  ELSE Contribution(points[i], edges[e], GridAt(a),
                                                    GridAt(b), distance_threshold.v, d)]))

\* C14 witness: landmarks 1 and 2 of instance 1 coincide at (4, 0);
\* instance 2 has the edge (1,0) -> (4,0).  At x = 4, y = 0 edge 1 -> 2 holds
\* instance 2's vector (1, 0) alone and edge 2 -> 3 the vectors (0, 1) of both.
C14_Witness ==
    /\ pc = "make_pafs"
    /\ Len(points) = 2
    /\ points[1] = <<<<Px(4), Px(0)>>, <<Px(4), Px(0)>>, <<Px(4), Px(4)>>>>
    /\ points[2] = <<<<Px(1), Px(0)>>, <<Px(4), Px(0)>>, <<Px(4), Px(4)>>>>
    /\ edges = <<<<1, 2>>, <<2, 3>>>>
    /\ output_scale = Px(1)
    /\ distance_threshold = Px(0)
    /\ <<PafAt(5, 1, 1, 1), PafAt(5, 1, 1, 2)>> = <<Px(1), Px(0)>>
    /\ <<PafAt(5, 1, 2, 1), PafAt(5, 1, 2, 2)>> = <<Px(0), Px(2)>>

---------------------------------------------------------------------------
\* The samples v along a dimension of `size` pixels are 0, 1/s, 2/s, ...,
\* all below size, and the next multiple of 1/s is not below size.
IsGridOf(v, size) ==
    /\ Len(v) = GridLen(size)
    /\ \A j \in 1..Len(v) : v[j] = Num(GridAt(j)) /\ GridAt(j) < size * FP
    /\ GridAt(Len(v) + 1) >= size * FP

\* The Gaussian (sigma in whole pixels) of the landmark pt at (gx, gy).
GaussianOnGrid(pt, gx, gy) ==
    LET d2 == (gx - pt[1].v) * (gx - pt[1].v) + (gy - pt[2].v) * (gy - pt[2].v)
        s == sigma.v \div FP
    IN IF d2 = 0 THEN Px(1)
       ELSE [k |-> "exp", v |-> -(d2 \div (2 * s * s * FP))]

\* C15: along a dimension of D pixels the grid of make_confmaps and of
\* make_pafs holds the coordinates 0, 1/s, 2/s, ... below D, ceil(D * s) of
\* them, and make_confmaps returns one (ceil(H * s), ceil(W * s),
\* n_landmarks) map per instance, evaluated at those coordinates.  (The
\* grid of make_pafs is read as make_pafs lays it out, x along its axis 1.)
C15_SamplingGrid ==
    pc = "make_confmaps" =>
        LET yv == tf_range(image_height, Div(Px(1), output_scale))
            xv == tf_range(image_width, Div(Px(1), output_scale))
            sampling_grid == paf_sampling_grid(xv, yv)
        IN /\ IsGridOf(yv, image_height)
           /\ IsGridOf(xv, image_width)
           /\ Len(sampling_grid) = GridLen(image_width)
           /\ \A a \in 1..Len(sampling_grid) :
                  /\ Len(sampling_grid[a]) = GridLen(image_height)
                  /\ \A b \in 1..Len(sampling_grid[a]) :
                         sampling_grid[a][b] = <<Num(GridAt(a)), Num(GridAt(b))>>
           /\ Len(confmaps) = Len(points)
           /\ \A i \in 1..Len(points) :
                  /\ Len(confmaps[i]) = GridLen(image_height)
                  /\ \A r \in 1..Len(confmaps[i]) :
                         /\ Len(confmaps[i][r]) = GridLen(image_width)
                         /\ \A c \in 1..Len(confmaps[i][r]) :
                                /\ Len(confmaps[i][r][c]) = Len(points[i])
                                /\ \A n \in 1..Len(points[i]) :
                                       Present(points[i][n]) =>
                                           confmaps[i][r][c][n] =
                                               GaussianOnGrid(points[i][n], GridAt(c),
                                                              GridAt(r))

\* C15 witness: a 3 x 5 image at scale 1/2 gives two maps of 2 rows (y = 0,
\* 2) and 3 columns (x = 0, 2, 4), each for its own instance.
C15_Witness ==
    /\ pc = "make_confmaps"
    /\ Len(points) = 2
    /\ image_height = 3
    /\ image_width = 5
    /\ output_scale = Num(FP \div 2)
    /\ Len(confmaps) = 2
    /\ Len(confmaps[1]) = 2
    /\ Len(confmaps[1][1]) = 3
    /\ confmaps[1][1][3][1] = [k |-> "exp", v |-> -((9 * FP) \div 2)]
    /\ confmaps[2][1][3][1] = [k |-> "exp", v |-> -((17 * FP) \div 2)]

---------------------------------------------------------------------------
\* The value of the confidence map of the landmark pt at row r, column c.
ValueAt(pt, r, c) ==
    IF Present(pt) THEN GaussianAt(pt, GridAt(c), GridAt(r)) ELSE Num(0)

\* The order of confidence-map values: 0 < e^(v / FP) < 1 for v < 0.
OrderOf(x) == IF x.k = "exp" THEN x.v ELSE IF x.v = 0 THEN -(FP * FP * FP) ELSE 1

\* The instance-wise maps of the point set pts, and their maximum over
\* the instances at every pixel and landmark.
InstanceMaps(pts) ==
    [i \in 1..Len(pts) |->
        [r \in 1..GridLen(image.height) |->
            [c \in 1..GridLen(image.width) |->
                [n \in 1..Len(pts[i]) |-> ValueAt(pts[i][n], r, c)]]]]
MaxMaps(pts) ==
    [r \in 1..GridLen(image.height) |->
        [c \in 1..GridLen(image.width) |->
            [n \in 1..Len(pts[1]) |->
                LET vals == {ValueAt(pts[i][n], r, c) : i \in 1..Len(pts)}
                IN CHOOSE x \in vals : \A y \in vals : OrderOf(y) <= OrderOf(x)]]]

\* C16: make_confmap_ds returns (image, cms) with cms the maximum over the
\* instances of make_confmaps at every pixel and landmark;
\* make_instance_confmap_ds returns (image, outputs) with outputs the
\* requested maps in the order instance-wise, instance-max-reduced, centre
\* instance only, one per flag set; the image is returned unchanged.
C16_ConfmapDatasets ==
    /\ pc = "make_confmap_ds" => ds_cms = <<image, MaxMaps(points)>>
    /\ pc = "make_instance_confmap_ds" =>
           /\ Len(ds_cms) = 2
           /\ ds_cms[1] = image
           /\ Len(ds_cms[2]) = Cardinality({f \in {1, 2, 3} :
                                              <<with_instance_cms, with_all_peaks,
                                                with_ctr_peaks>>[f]})
           /\ ds_cms[2] =
                  (IF with_instance_cms THEN <<InstanceMaps(points)>> ELSE <<>>)
                  \o (IF with_all_peaks THEN <<MaxMaps(points)>> ELSE <<>>)
                  \o (IF with_ctr_peaks THEN <<MaxMaps(<<ctr_points>>)>> ELSE <<>>)

\* C16 witness: every output was requested for two instances with the
\* second as centre: at x = 0, y = 0 landmark 1 peaks through instance 1
\* and at x = 1, y = 1 through instance 2, and the centre map holds
\* instance 2 alone.
C16_Witness ==
    /\ pc = "make_instance_confmap_ds"
    /\ with_instance_cms /\ with_all_peaks /\ with_ctr_peaks
    /\ points = <<<<<<Px(0), Px(0)>>, NoPoint>>,
                  <<<<Px(1), Px(1)>>, <<Px(1), Px(0)>>>>>>
    /\ ctr_points = points[2]
    /\ Len(ds_cms[2]) = 3
    /\ ds_cms[2][1][2][1][1][1] = [k |-> "exp", v |-> -FP]
    /\ ds_cms[2][2][1][1][1] = Px(1)
    /\ ds_cms[2][2][2][2][1] = Px(1)
    /\ ds_cms[2][3][1][1][1] = [k |-> "exp", v |-> -FP]

====
